---- MODULE Spec2Model ----
(***************************************************************************)
(* Model of the Sisyphus background-task registry of devora-cli:          *)
(* BackgroundTaskManager (packages/core/src/tools/sisyphus/index.ts,      *)
(* lines 370-492) and the operations the tools call on it, of the         *)
(* background_output tool (background-task.ts) and of the delegate_task    *)
(* tool (index.ts, lines 74-355); beside them SequentialThinkingServer     *)
(* (background-task.ts, lines 346-441) and the todo helpers                *)
(* (hooks/sisyphus/todo-continuation.ts).                                  *)
(*                                                                         *)
(* JavaScript runs one operation at a time.  startBackgroundTask is an     *)
(* async function without any await in its body, so its two writes to the  *)
(* map happen in one uninterrupted step; every method is one action.       *)
(***************************************************************************)
EXTENDS Integers, Sequences, FiniteSets, TLC

VARIABLES
    tasks,      \* BackgroundTaskManager.tasks : Map<string, task record>
    now,        \* the value Date.now() returns
    issued,     \* ghost: how many times each id was returned by startBackgroundTask
    hist,       \* ghost: per stored id, the statuses written to it by tasks.set, in order
    last,       \* ghost: the last method called: its name, its id argument or returned
                \* id, its number argument, its return value, the entries it wrote
    dlg,        \* ghost: the last delegate_task call: its parameters, the agent
                \* directory, the signal, the executor's behaviour and the outcome
    mgr,        \* BackgroundTaskManager.instance (0 while undefined) and the number
                \* of managers constructed; tasks is the map of the manager
    thoughtHistory, \* SequentialThinkingServer.thoughtHistory
    branches,   \* SequentialThinkingServer.branches: its own keys in insertion
                \* order, each with its thoughts
    response,   \* ghost: what the last processThought call returned
    todos,      \* the todo list handed to the todo helpers
    answer      \* ghost: the last todo helper called and what it returned

registryVars == <<tasks, now, issued, hist, last, dlg, mgr>>
thinkingVars == <<thoughtHistory, branches, response>>
todoVars == <<todos, answer>>

vars == <<tasks, now, issued, hist, last, dlg, mgr, thoughtHistory, branches, response,
          todos, answer>>

----------------------------------------------------------------------------
(* Bounds of the model *)

MaxTime == 1
MaxStarts == 2
MaxThoughts == 2
MaxTodos == 3

----------------------------------------------------------------------------
(* Values *)

\* status: 'pending' | 'running' | 'completed' | 'error' | 'cancelled'
Statuses == {"pending", "running", "completed", "error", "cancelled"}

\* an optional field (result?, error?) that is absent
None == "none"

Agents == {"explore", "ghost"}
Descriptions == {"d"}
Prompts == {"p"}

\* two of the outcomes of Math.random().toString(36).substr(2, 9)
Suffixes == {"a", "b"}

\* `task_${Date.now()}_${suffix}`
MakeTaskId(ts, sfx) == <<"task", ts, sfx>>

\* parseInt(taskId.split('_')[1], 10)
IdTimestamp(taskId) == taskId[2]

\* the ids startBackgroundTask can return
AllIds == {MakeTaskId(ts, sfx) : ts \in 0..MaxTime, sfx \in Suffixes}

\* an id startBackgroundTask never returned
NeverIssuedId == MakeTaskId(0, "zzz")

\* this.tasks.set(taskId, rec)
MapSet(T, taskId, rec) ==
    [k \in (DOMAIN T) \cup {taskId} |-> IF k = taskId THEN rec ELSE T[k]]

\* this.tasks.delete(taskId) for every taskId of D
MapDeleteAll(T, D) == [k \in (DOMAIN T) \ D |-> T[k]]

EmptyMap == [k \in {} |-> None]

----------------------------------------------------------------------------
(* BackgroundTaskManager: the methods as functions of the map *)

\* The record startBackgroundTask stores: no result and no error field.
NewTask(taskId, description, agent, status) ==
    [id |-> taskId, description |-> description, agent |-> agent,
     status |-> status, result |-> None, error |-> None]

\* Mutants of startBackgroundTask: the completed task carries a result; a task
\* is registered only for an agent of the package.
startBackgroundTask_StoresResult(T, description, agent, prompt, ts, sfx) ==
    LET taskId == MakeTaskId(ts, sfx)
    IN  [tasks |-> MapSet(T, taskId,
                          [NewTask(taskId, description, agent, "completed")
                              EXCEPT !.result = "r"]),
         ret |-> taskId, writes |-> <<"pending", "completed">>]

startBackgroundTask_KnownAgentsOnly(T, description, agent, prompt, ts, sfx) ==
    LET taskId == MakeTaskId(ts, sfx)
    IN  IF agent \in {"sisyphus", "oracle", "explore", "librarian", "frontend"}
        THEN [tasks |-> MapSet(T, taskId, NewTask(taskId, description, agent, "completed")),
              ret |-> taskId, writes |-> <<"pending", "completed">>]
        ELSE [tasks |-> T, ret |-> taskId, writes |-> <<>>]

\* startBackgroundTask(description, agent, _prompt), with Date.now() = ts and the
\* random suffix sfx.  Two tasks.set calls and no await between them: 'pending',
\* then ("for now, mark as completed immediately") 'completed'.  Returns the id.
startBackgroundTask(T, description, agent, prompt, ts, sfx) ==
    LET taskId == MakeTaskId(ts, sfx)
        T1 == MapSet(T, taskId, NewTask(taskId, description, agent, "pending"))
        T2 == MapSet(T1, taskId, NewTask(taskId, description, agent, "completed"))
    IN  [tasks |-> T2, ret |-> taskId, writes |-> <<"pending", "completed">>]

\* Mutant of getTaskResult: null for a missing task.
getTaskResult_NullIfMissing(T, taskId) ==
    IF taskId \notin DOMAIN T
    THEN [kind |-> "null", payload |-> None]
    ELSE IF T[taskId].status = "error" /\ T[taskId].error # None
    THEN [kind |-> "error", payload |-> T[taskId].error]
    ELSE IF T[taskId].status = "completed" /\ T[taskId].result # None
    THEN [kind |-> "result", payload |-> T[taskId].result]
    ELSE [kind |-> "null", payload |-> None]

\* getTaskResult(taskId): Error (not found) | task.error | task.result | null
getTaskResult(T, taskId) ==
    IF taskId \notin DOMAIN T
    THEN [kind |-> "notfound", payload |-> None]
    ELSE IF T[taskId].status = "error" /\ T[taskId].error # None
    THEN [kind |-> "error", payload |-> T[taskId].error]
    ELSE IF T[taskId].status = "completed" /\ T[taskId].result # None
    THEN [kind |-> "result", payload |-> T[taskId].result]
    ELSE [kind |-> "null", payload |-> None]

\* Mutants of cancelTask: cancel whatever is not yet cancelled; forget 'running';
\* answer true for every stored task.
cancelTask_AnyStatus(T, taskId) ==
    IF taskId \notin DOMAIN T
    THEN [tasks |-> T, ret |-> FALSE]
    ELSE IF T[taskId].status # "cancelled"
    THEN [tasks |-> MapSet(T, taskId, [T[taskId] EXCEPT !.status = "cancelled"]),
          ret |-> TRUE]
    ELSE [tasks |-> T, ret |-> FALSE]

cancelTask_PendingOnly(T, taskId) ==
    IF taskId \notin DOMAIN T
    THEN [tasks |-> T, ret |-> FALSE]
    ELSE IF T[taskId].status = "pending"
    THEN [tasks |-> MapSet(T, taskId, [T[taskId] EXCEPT !.status = "cancelled"]),
          ret |-> TRUE]
    ELSE [tasks |-> T, ret |-> FALSE]

cancelTask_TrueIfStored(T, taskId) ==
    IF taskId \notin DOMAIN T
    THEN [tasks |-> T, ret |-> FALSE]
    ELSE IF T[taskId].status = "pending" \/ T[taskId].status = "running"
    THEN [tasks |-> MapSet(T, taskId, [T[taskId] EXCEPT !.status = "cancelled"]),
          ret |-> TRUE]
    ELSE [tasks |-> T, ret |-> TRUE]

\* cancelTask(taskId): boolean
cancelTask(T, taskId) ==
    IF taskId \notin DOMAIN T
    THEN [tasks |-> T, ret |-> FALSE]
    ELSE IF T[taskId].status = "pending" \/ T[taskId].status = "running"
    THEN [tasks |-> MapSet(T, taskId, [T[taskId] EXCEPT !.status = "cancelled"]),
          ret |-> TRUE]
    ELSE [tasks |-> T, ret |-> FALSE]

\* Mutant of cancelAll: forget 'pending'.
cancelAll_RunningOnly(T) ==
    [k \in DOMAIN T |->
        IF T[k].status = "running"
        THEN [T[k] EXCEPT !.status = "cancelled"]
        ELSE T[k]]

\* cancelAll(): void.  Setting an existing key while iterating a Map neither adds
\* an entry nor changes the iteration, so every entry is visited exactly once.
cancelAll(T) ==
    [k \in DOMAIN T |->
        IF T[k].status = "pending" \/ T[k].status = "running"
        THEN [T[k] EXCEPT !.status = "cancelled"]
        ELSE T[k]]

\* Mutant of cleanup: age alone decides.
cleanup_AnyStatus(T, nowMs, olderThanMs) ==
    MapDeleteAll(T, {k \in DOMAIN T : IdTimestamp(k) < nowMs - olderThanMs})

\* cleanup(olderThanMs) with Date.now() = nowMs.  taskId.split('_')[1] is the
\* timestamp's digits, a non-empty string, hence truthy.
cleanup(T, nowMs, olderThanMs) ==
    LET cutoff == nowMs - olderThanMs
        old == {k \in DOMAIN T :
                    /\ (T[k].status = "completed" \/ T[k].status = "cancelled")
                    /\ IdTimestamp(k) < cutoff}
    IN  MapDeleteAll(T, old)

----------------------------------------------------------------------------
(* background_output tool (BackgroundOutputTool, BackgroundOutputInvocation) *)

\* timeout must be between 1000 and 300000 milliseconds
MinTimeoutMs == 1000
MaxTimeoutMs == 300000

\* an optional number: <<>> when undefined, <<n>> when given
Timeouts == {<<>>, <<MinTimeoutMs - 1>>, <<MinTimeoutMs>>, <<MaxTimeoutMs>>, <<MaxTimeoutMs + 1>>}

\* the task_id '' (or only white space) is <<>>
EmptyTaskId == <<>>

\* BackgroundOutputTool.validateToolParamValues: the message, or None for null
validateOutputParams(task_id, block, timeout) ==
    IF task_id = EmptyTaskId
    THEN "task_id must not be empty"
    ELSE IF timeout # <<>> /\ (timeout[1] < MinTimeoutMs \/ timeout[1] > MaxTimeoutMs)
    THEN "timeout must be between 1000 and 300000 milliseconds"
    ELSE None

\* BackgroundOutputInvocation.execute: one getTaskResult call; block and timeout
\* are not read.  Both the not-found Error and a task's own error are
\* `instanceof Error`; the payload is the Error's message.
backgroundOutput(T, task_id) ==
    LET result == getTaskResult(T, task_id)
    IN  IF result.kind = "notfound"
        THEN [kind |-> "toolError", payload |-> "not found"]
        ELSE IF result.kind = "error"
        THEN [kind |-> "toolError", payload |-> result.payload]
        ELSE IF result.kind = "null"
        THEN [kind |-> "stillRunning", payload |-> None]
        ELSE [kind |-> "toolResult", payload |-> result.payload]

\* Mutant of backgroundOutputCall: a blocking retrieval that finds the task
\* running gives up by cancelling it.
backgroundOutputCall_CancelsOnTimeout(T, task_id, block, timeout) ==
    [tasks |-> IF block /\ backgroundOutput(T, task_id).kind = "stillRunning"
               THEN cancelTask(T, task_id).tasks ELSE T,
     ret |-> backgroundOutput(T, task_id), lookups |-> 1]

\* the effect of BackgroundOutputInvocation.execute for the parameters
\* task_id, block and timeout: the map as it was, the answer, and the number
\* of getTaskResult calls.  params.block and params.timeout are never read.
backgroundOutputCall(T, task_id, block, timeout) ==
    [tasks |-> T, ret |-> backgroundOutput(T, task_id), lookups |-> 1]

----------------------------------------------------------------------------
(* BackgroundTaskManager.getInstance and the tools background_task and    *)
(* background_cancel                                                        *)

NoManager == [instance |-> 0, created |-> 0]
TheManager == [instance |-> 1, created |-> 1]

\* Mutant of getInstance: a manager is constructed on every call.
getInstance_AlwaysNew(M) ==
    [instance |-> M.created + 1, created |-> M.created + 1]

\* static getInstance(): constructs the manager if the static field is unset
getInstance(M) ==
    IF M.instance = 0
    THEN [instance |-> M.created + 1, created |-> M.created + 1]
    ELSE M

\* the string '' (or only white space)
Empty == ""

\* BackgroundTaskTool.validateToolParamValues: the message, or None for null
validateTaskParams(description, prompt, agent) ==
    IF description = Empty THEN "Description must not be empty"
    ELSE IF prompt = Empty THEN "Prompt must not be empty"
    ELSE IF agent = Empty THEN "Agent must be specified"
    ELSE None

\* Mutant of validateCancelParams: both parameters together are accepted.
validateCancelParams_AcceptsBoth(taskId, all) ==
    IF taskId = <<>> /\ ~all
    THEN "Must specify either taskId or all=true"
    ELSE None

\* BackgroundCancelTool.validateToolParamValues; taskId is NoId when it is
\* undefined or '', all is FALSE when it is undefined or false
validateCancelParams(taskId, all) ==
    IF taskId # <<>> /\ all
    THEN "Cannot specify both taskId and all"
    ELSE IF taskId = <<>> /\ ~all
    THEN "Must specify either taskId or all=true"
    ELSE None

\* Mutant of backgroundCancel: a stored task is always reported as cancelled.
backgroundCancel_CancelledIfStored(T, taskId, all) ==
    IF all
    THEN [tasks |-> cancelAll(T), ret |-> "all cancelled"]
    ELSE IF taskId # <<>>
    THEN [tasks |-> cancelTask(T, taskId).tasks,
          ret |-> IF taskId \in DOMAIN T THEN "cancelled" ELSE "not found or already completed"]
    ELSE [tasks |-> T, ret |-> "no action taken"]

\* BackgroundCancelInvocation.execute: the map afterwards and the answer
backgroundCancel(T, taskId, all) ==
    IF all
    THEN [tasks |-> cancelAll(T), ret |-> "all cancelled"]
    ELSE IF taskId # <<>>
    THEN [tasks |-> cancelTask(T, taskId).tasks,
          ret |-> IF cancelTask(T, taskId).ret
                  THEN "cancelled" ELSE "not found or already completed"]
    ELSE [tasks |-> T, ret |-> "no action taken"]

\* tool.build(params) of background_cancel: parameters that fail validation
\* surface the message and yield no invocation
buildCancel(taskId, all) ==
    [error |-> validateCancelParams(taskId, all)]

----------------------------------------------------------------------------
(* delegate_task tool (DelegateTaskTool, DelegateTaskInvocation) *)

\* Object.keys(DEFAULT_CATEGORIES), in the order of the table
CategoryNames == <<"visual", "business-logic", "writing", "quick", "architecture">>

CategoryKeys == {CategoryNames[i] : i \in DOMAIN CategoryNames}

\* DEFAULT_CATEGORIES[c].temperature, in tenths
DEFAULT_CATEGORIES ==
    "visual" :> 8 @@ "business-logic" :> 2 @@ "writing" :> 7 @@ "quick" :> 1
        @@ "architecture" :> 0

\* DEFAULT_CATEGORIES is an object literal: the `in` operator also finds the
\* properties it inherits from Object.prototype
ObjectPrototypeKeys == {"toString", "constructor"}

HasProperty(key) == key \in CategoryKeys \cup ObjectPrototypeKeys

\* the agents of the package, in the order of SISYPHUS_AGENTS
SISYPHUS_AGENTS == <<"sisyphus", "oracle", "explore", "librarian", "frontend">>

\* each definition's required input fields and modelConfig temperature (tenths)
AgentDefinitions ==
    "sisyphus" :> [required |-> {"task"}, temperature |-> 2]
        @@ "oracle" :> [required |-> {"question"}, temperature |-> 0]
        @@ "explore" :> [required |-> {"objective"}, temperature |-> 1]
        @@ "librarian" :> [required |-> {"topic"}, temperature |-> 2]
        @@ "frontend" :> [required |-> {"task"}, temperature |-> 8]

\* the agent directory the tool is constructed with: the names it has a
\* definition for
Registries == {DOMAIN AgentDefinitions, (DOMAIN AgentDefinitions) \ {"sisyphus"}}

\* registry.getAllDefinitions().map((def) => def.name)
AgentNames(registry) == SelectSeq(SISYPHUS_AGENTS, LAMBDA n : n \in registry)

\* the truth value of an optional string: undefined and '' are falsy
Truthy(s) == s # None /\ s # ""

\* the request fields the tool reads
Categories == {None, "", "visual", "quick", "bogus", "toString"}
SubagentTypes == {None, "oracle", "sisyphus", "explore", "librarian", "frontend", "nonesuch"}
Resumes == {None, "", "s1"}

DelegateTaskArgs ==
    [description : Descriptions, prompt : Prompts, category : Categories,
     subagent_type : SubagentTypes, run_in_background : BOOLEAN, resume : Resumes]

\* what the sub-agent invocation's execute does: return a text, return a
\* list of parts, or throw
Executors == {"text", "parts", "throw"}

\* llmContent: a bare value or an array of values
Content(isArray, parts) == [isArray |-> isArray, parts |-> parts]
NoContent == Content(FALSE, <<>>)

ExecutorResult(executor) ==
    [llmContent |-> Content(executor = "parts", <<"x">>), returnDisplay |-> "executor display"]

NoResult == [llmContent |-> NoContent, returnDisplay |-> None]

\* Array.isArray(c) ? c : [c]
WrapContent(c) == IF c.isArray THEN c ELSE Content(TRUE, <<c.parts[1]>>)

Valid == [error |-> None, available |-> <<>>]

\* Mutant of validateToolParamValues: the test for both fields is missing.
validateToolParamValues_NoBothCheck(params, registry) ==
    IF Truthy(params.category) /\ ~HasProperty(params.category)
    THEN [error |-> "Unknown category", available |-> CategoryNames]
    ELSE IF Truthy(params.subagent_type) /\ params.subagent_type \notin registry
    THEN [error |-> "Unknown agent", available |-> AgentNames(registry)]
    ELSE Valid

\* DelegateTaskTool.validateToolParamValues: the message, with the names it
\* enumerates, or Valid for null
validateToolParamValues(params, registry) ==
    IF Truthy(params.category) /\ Truthy(params.subagent_type)
    THEN [error |-> "Cannot specify both", available |-> <<>>]
    ELSE IF Truthy(params.category) /\ ~HasProperty(params.category)
    THEN [error |-> "Unknown category", available |-> CategoryNames]
    ELSE IF Truthy(params.subagent_type) /\ params.subagent_type \notin registry
    THEN [error |-> "Unknown agent", available |-> AgentNames(registry)]
    ELSE Valid

\* Mutant of resolveTarget: a category overrides nothing.
resolveTarget_NoTemperature(params) ==
    [agentName |-> IF Truthy(params.subagent_type) THEN params.subagent_type ELSE "sisyphus",
     temperature |-> <<>>]

\* the head of DelegateTaskInvocation.execute: the target agent and the
\* temperature (<<>> for undefined).  An inherited property of the table has
\* no temperature.
resolveTarget(params) ==
    IF Truthy(params.subagent_type)
    THEN [agentName |-> params.subagent_type, temperature |-> <<>>]
    ELSE IF Truthy(params.category)
    THEN [agentName |-> "sisyphus",
          temperature |-> IF params.category \in CategoryKeys
                          THEN <<DEFAULT_CATEGORIES[params.category]>>
                          ELSE <<>>]
    ELSE [agentName |-> "sisyphus", temperature |-> <<>>]

\* Mutant of AgentArgs: the prompt is packed under the key objective.
AgentArgs_PromptAsObjective(params) ==
    <<<<"objective", params.prompt>>>>
        \o (IF Truthy(params.resume) THEN <<<<"resume_session", params.resume>>>> ELSE <<>>)

\* Mutant of AgentArgs: the description is packed as well.
AgentArgs_WithDescription(params) ==
    <<<<"task", params.prompt>>, <<"description", params.description>>>>
        \o (IF Truthy(params.resume) THEN <<<<"resume_session", params.resume>>>> ELSE <<>>)

\* agentArgs as key-value pairs: task, and resume_session if resume is truthy
AgentArgs(params) ==
    <<<<"task", params.prompt>>>>
        \o (IF Truthy(params.resume) THEN <<<<"resume_session", params.resume>>>> ELSE <<>>)

\* SchemaValidator.validate(inputSchema, agentArgs): the required fields that
\* are missing; {} for no error
SchemaViolations(required, agentArgs) ==
    required \ {agentArgs[i][1] : i \in DOMAIN agentArgs}

Outcome(kind, v, target, agentArgs, invoked, result) ==
    [kind |-> kind, error |-> v.error, available |-> v.available,
     agentName |-> target.agentName, temperature |-> target.temperature,
     agentArgs |-> agentArgs, invoked |-> invoked, result |-> result]

NoTarget == [agentName |-> None, temperature |-> <<>>]

\* what the sub-agent invocation is built from: the definition (with its own
\* modelConfig) and agentArgs
Invocation(agentName, agentArgs) ==
    [agent |-> agentName, temperature |-> AgentDefinitions[agentName].temperature,
     agentArgs |-> agentArgs]

\* Mutants of execute: the signal is tested first; an executor failure is
\* returned as a result; the arguments are not validated.
execute_AbortCheckFirst(params, registry, aborted, executor) ==
    LET target == resolveTarget(params)
        agentArgs == AgentArgs(params)
    IN  IF aborted
        THEN Outcome("cancelled", Valid, target, agentArgs, <<>>, NoResult)
        ELSE IF target.agentName \notin registry
        THEN Outcome("agentNotFound", Valid, target, <<>>, <<>>, NoResult)
        ELSE IF SchemaViolations(AgentDefinitions[target.agentName].required, agentArgs) # {}
        THEN Outcome("invalidArguments", Valid, target, agentArgs, <<>>, NoResult)
        ELSE IF executor = "throw"
        THEN Outcome("executorFailure", Valid, target, agentArgs,
                     <<Invocation(target.agentName, agentArgs)>>, NoResult)
        ELSE Outcome("result", Valid, target, agentArgs,
                     <<Invocation(target.agentName, agentArgs)>>,
                     [llmContent |-> WrapContent(ExecutorResult(executor).llmContent),
                      returnDisplay |-> "delegated completed"])

execute_SwallowsFailure(params, registry, aborted, executor) ==
    LET target == resolveTarget(params)
        agentArgs == AgentArgs(params)
    IN  IF target.agentName \notin registry
        THEN Outcome("agentNotFound", Valid, target, <<>>, <<>>, NoResult)
        ELSE IF SchemaViolations(AgentDefinitions[target.agentName].required, agentArgs) # {}
        THEN Outcome("invalidArguments", Valid, target, agentArgs, <<>>, NoResult)
        ELSE IF aborted
        THEN Outcome("cancelled", Valid, target, agentArgs, <<>>, NoResult)
        ELSE Outcome("result", Valid, target, agentArgs,
                     <<Invocation(target.agentName, agentArgs)>>,
                     [llmContent |-> IF executor = "throw" THEN NoContent
                                     ELSE WrapContent(ExecutorResult(executor).llmContent),
                      returnDisplay |-> "delegated completed"])

execute_NoSchemaCheck(params, registry, aborted, executor) ==
    LET target == resolveTarget(params)
        agentArgs == AgentArgs(params)
    IN  IF target.agentName \notin registry
        THEN Outcome("agentNotFound", Valid, target, <<>>, <<>>, NoResult)
        ELSE IF aborted
        THEN Outcome("cancelled", Valid, target, agentArgs, <<>>, NoResult)
        ELSE IF executor = "throw"
        THEN Outcome("executorFailure", Valid, target, agentArgs,
                     <<Invocation(target.agentName, agentArgs)>>, NoResult)
        ELSE Outcome("result", Valid, target, agentArgs,
                     <<Invocation(target.agentName, agentArgs)>>,
                     [llmContent |-> WrapContent(ExecutorResult(executor).llmContent),
                      returnDisplay |-> "delegated completed"])

\* Mutant of execute: a background request registers nothing inline and
\* returns a task id instead of the executor's result.
execute_BackgroundReturnsId(params, registry, aborted, executor) ==
    LET target == resolveTarget(params)
        agentArgs == AgentArgs(params)
    IN  IF target.agentName \notin registry
        THEN Outcome("agentNotFound", Valid, target, <<>>, <<>>, NoResult)
        ELSE IF SchemaViolations(AgentDefinitions[target.agentName].required, agentArgs) # {}
        THEN Outcome("invalidArguments", Valid, target, agentArgs, <<>>, NoResult)
        ELSE IF aborted
        THEN Outcome("cancelled", Valid, target, agentArgs, <<>>, NoResult)
        ELSE IF params.run_in_background
        THEN Outcome("taskId", Valid, target, agentArgs, <<>>, NoResult)
        ELSE IF executor = "throw"
        THEN Outcome("executorFailure", Valid, target, agentArgs,
                     <<Invocation(target.agentName, agentArgs)>>, NoResult)
        ELSE Outcome("result", Valid, target, agentArgs,
                     <<Invocation(target.agentName, agentArgs)>>,
                     [llmContent |-> WrapContent(ExecutorResult(executor).llmContent),
                      returnDisplay |-> "delegated completed"])

\* DelegateTaskInvocation.execute(signal), in the order of the code: target,
\* definition lookup, arguments, schema validation, signal, executor, result
\* with llmContent as an array and returnDisplay replaced.  The temperature
\* is logged only.  A category that is no property of the table at all would
\* raise a TypeError on reading its temperature.
execute(params, registry, aborted, executor) ==
    LET target == resolveTarget(params)
        agentArgs == AgentArgs(params)
    IN  IF ~Truthy(params.subagent_type) /\ Truthy(params.category)
            /\ ~HasProperty(params.category)
        THEN Outcome("typeError", Valid, NoTarget, <<>>, <<>>, NoResult)
        ELSE IF target.agentName \notin registry
        THEN Outcome("agentNotFound", Valid, target, <<>>, <<>>, NoResult)
        ELSE IF SchemaViolations(AgentDefinitions[target.agentName].required, agentArgs) # {}
        THEN Outcome("invalidArguments", Valid, target, agentArgs, <<>>, NoResult)
        ELSE IF aborted
        THEN Outcome("cancelled", Valid, target, agentArgs, <<>>, NoResult)
        ELSE IF executor = "throw"
        THEN Outcome("executorFailure", Valid, target, agentArgs,
                     <<Invocation(target.agentName, agentArgs)>>, NoResult)
        ELSE Outcome("result", Valid, target, agentArgs,
                     <<Invocation(target.agentName, agentArgs)>>,
                     [llmContent |-> WrapContent(ExecutorResult(executor).llmContent),
                      returnDisplay |-> "delegated completed"])

\* the parameters and the outcome before any call
NoParams ==
    [description |-> "d", prompt |-> "p", category |-> None, subagent_type |-> None,
     run_in_background |-> FALSE, resume |-> None]

NoOutcome == Outcome("none", Valid, NoTarget, <<>>, <<>>, NoResult)

\* the tool before its first call, constructed with an agent directory
NoDelegation(registry) ==
    [op |-> "none", registry |-> registry, params |-> NoParams, aborted |-> FALSE,
     executor |-> None, outcome |-> NoOutcome]

\* tool.build(params): parameters that fail validation surface the error and
\* yield no invocation; the others yield an invocation that can be executed
build(D, params) ==
    LET v == validateToolParamValues(params, D.registry)
    IN  IF v.error # None
        THEN [NoDelegation(D.registry) EXCEPT
                !.op = "rejected", !.params = params,
                !.outcome = Outcome("validationError", v, NoTarget, <<>>, <<>>, NoResult)]
        ELSE [NoDelegation(D.registry) EXCEPT !.op = "built", !.params = params]

----------------------------------------------------------------------------
(* Sequential thinking (SequentialThinkingServer)                           *)

\* the parameters processThought reads; isRevision, revisesThought,
\* needsMoreThoughts and nextThoughtNeeded are copied to the entry and to the
\* response and read nowhere
Thoughts == {"t"}
ThoughtNumbers == {1, 2}
BranchFroms == {<<>>, <<1>>}
BranchIds == {None, "", "b1", "constructor"}

SequentialThinkingParams ==
    [thought : Thoughts, thoughtNumber : ThoughtNumbers, totalThoughts : ThoughtNumbers,
     branchFromThought : BranchFroms, branchId : BranchIds]

\* the truth value of an optional number: undefined and 0 are falsy
TruthyNumber(n) == n # <<>> /\ n[1] # 0

\* Object.keys(this.branches)
BranchKeys(B) == [i \in DOMAIN B |-> B[i].id]

\* this.branches[id] is an own property
HasOwnBranch(B, id) == \E i \in DOMAIN B : B[i].id = id

\* this.branches[id].push(thoughtData)
BranchPush(B, id, thoughtData) ==
    [i \in DOMAIN B |->
        IF B[i].id = id THEN [B[i] EXCEPT !.thoughts = Append(@, thoughtData)] ELSE B[i]]

Response(kind, thoughtNumber, totalThoughts, keys, length) ==
    [kind |-> kind, thoughtNumber |-> thoughtNumber, totalThoughts |-> totalThoughts,
     branches |-> keys, thoughtHistoryLength |-> length]

NoResponse == Response("none", 0, 0, <<>>, 0)

\* the entry processThought stores
ThoughtData(input, totalThoughts, ts) ==
    [thought |-> input.thought, thoughtNumber |-> input.thoughtNumber,
     totalThoughts |-> totalThoughts, branchFromThought |-> input.branchFromThought,
     branchId |-> input.branchId, timestamp |-> ts]

\* Mutants of processThought: totalThoughts is stored and returned as given;
\* a thought of a branch is kept in the branch only.
processThought_NoAdjust(S, input, ts) ==
    LET thoughtData == ThoughtData(input, input.totalThoughts, ts)
        H2 == Append(S.thoughtHistory, thoughtData)
    IN  [thoughtHistory |-> H2, branches |-> S.branches,
         response |-> Response("response", input.thoughtNumber, input.totalThoughts,
                               BranchKeys(S.branches), Len(H2))]

\* processThought(input), with Date.now() = ts.  this.branches is an object
\* literal: for a branchId that names a property inherited from
\* Object.prototype the lookup is truthy, no array is created and .push is not
\* a function, which raises a TypeError after the entry was pushed to the
\* history.
processThought(S, input, ts) ==
    LET totalThoughts == IF input.thoughtNumber > input.totalThoughts
                         THEN input.thoughtNumber ELSE input.totalThoughts
        thoughtData == ThoughtData(input, totalThoughts, ts)
        H2 == Append(S.thoughtHistory, thoughtData)
        branching == TruthyNumber(input.branchFromThought) /\ Truthy(input.branchId)
        B1 == IF branching /\ ~HasOwnBranch(S.branches, input.branchId)
              THEN Append(S.branches, [id |-> input.branchId, thoughts |-> <<>>])
              ELSE S.branches
        B2 == IF branching THEN BranchPush(B1, input.branchId, thoughtData) ELSE B1
    IN  IF branching /\ input.branchId \in ObjectPrototypeKeys
        THEN [thoughtHistory |-> H2, branches |-> S.branches,
              response |-> Response("typeError", 0, 0, <<>>, 0)]
        ELSE [thoughtHistory |-> H2, branches |-> B2,
              response |-> Response("response", input.thoughtNumber, totalThoughts,
                                    BranchKeys(B2), Len(H2))]

\* reset()
reset(S) == [thoughtHistory |-> <<>>, branches |-> <<>>, response |-> NoResponse]

----------------------------------------------------------------------------
(* Todo helpers (hooks/sisyphus/todo-continuation.ts)                       *)

TodoStatuses == {"pending", "in_progress", "completed"}
TodoContents == {"x", "y"}

\* SisyphusTodo; activeForm is read by no helper
SisyphusTodo == [content : TodoContents, status : TodoStatuses]

TodoLists == UNION {[1..n -> SisyphusTodo] : n \in 0..MaxTodos}

\* Array.prototype.find: <<>> for undefined, else the first element that
\* has the status
Find(list, status) ==
    LET I == {i \in DOMAIN list : list[i].status = status}
    IN  IF I = {} THEN <<>> ELSE <<list[CHOOSE i \in I : \A j \in I : i <= j]>>

\* todos.filter((t) => t.status !== 'completed')
Incomplete(list) == SelectSeq(list, LAMBDA t : t.status # "completed")

\* one line of the todo list of a message: the marker and the content
TodoLine(t) == <<IF t.status = "in_progress" THEN "->" ELSE " ", t.content>>

TodoLinesOf(list) == [i \in DOMAIN list |-> TodoLine(list[i])]

\* a || b for two optional contents (TodoContents holds no empty string)
OrElse(a, b) == IF a # <<>> THEN a[1].content ELSE IF b # <<>> THEN b[1].content ELSE "next task"

\* createTodoContinuationReminder(todos): the text as its parts, <<>> for ''
createTodoContinuationReminder(list) ==
    LET incomplete == Incomplete(list)
    IN  IF Len(incomplete) = 0 THEN <<>>
        ELSE <<<<"[SYSTEM REMINDER - TODO CONTINUATION]", "incomplete todo(s)">>>>
                \o TodoLinesOf(incomplete)
                \o <<<<"Continue working on", OrElse(Find(incomplete, "in_progress"),
                                                     Find(incomplete, "pending"))>>>>

\* hasIncompleteTodos(todos)
hasIncompleteTodos(list) == \E i \in DOMAIN list : list[i].status # "completed"

\* Mutant of getNextTodo: the first todo that is not completed.
getNextTodo_FirstIncomplete(list) ==
    IF Incomplete(list) = <<>> THEN <<>> ELSE <<Incomplete(list)[1]>>

\* getNextTodo(todos): <<>> for null
getNextTodo(list) ==
    IF Find(list, "in_progress") # <<>> THEN Find(list, "in_progress")
    ELSE IF Find(list, "pending") # <<>> THEN Find(list, "pending")
    ELSE <<>>

\* validateTodosComplete(todos): whether it throws, and the message's lines
validateTodosComplete(list) ==
    LET incomplete == Incomplete(list)
    IN  IF Len(incomplete) > 0
        THEN [threw |-> TRUE, message |-> TodoLinesOf(incomplete)]
        ELSE [threw |-> FALSE, message |-> <<>>]

NoAnswer ==
    [op |-> "none", has |-> FALSE, next |-> <<>>, reminder |-> <<>>, threw |-> FALSE,
     message |-> <<>>]

----------------------------------------------------------------------------
(* Ghost bookkeeping *)

\* the statuses written to each stored id: W maps the ids written by the step to
\* the statuses written, in order; entries of removed ids are dropped
Record(H, T2, W) ==
    [k \in DOMAIN T2 |->
        (IF k \in DOMAIN H THEN H[k] ELSE <<>>) \o (IF k \in DOMAIN W THEN W[k] ELSE <<>>)]

\* the status writes of a cancel step: the entries whose status it changed
CancelWrites(T, T2) ==
    [k \in {j \in DOMAIN T : T2[j].status # T[j].status} |-> <<T2[k].status>>]

\* the number of ids startBackgroundTask has returned so far
RECURSIVE SumOver(_, _)
SumOver(f, S) ==
    IF S = {} THEN 0
    ELSE LET k == CHOOSE x \in S : TRUE IN f[k] + SumOver(f, S \ {k})

NumIssued == SumOver(issued, AllIds)

\* the ids whose entry a step wrote or deleted
Touched(T, T2, W) ==
    (DOMAIN W) \cup ((DOMAIN T) \ (DOMAIN T2))

\* the ids a caller passes to getTaskResult and cancelTask: every id that was
\* returned or is stored, and one that never was
ProbeIds == {k \in AllIds : issued[k] > 0} \cup (DOMAIN tasks) \cup {NeverIssuedId}

\* Return values as recorded in last: one shape for every method
NoId == <<>>
Void == [kind |-> "void", payload |-> None]
Bool(b) == [kind |-> "boolean", payload |-> IF b THEN "true" ELSE "false"]
IdValue == [kind |-> "id", payload |-> None]

\* the optional parameters of a tool call: block and timeout of
\* background_output, all of background_cancel
NoOpts == [block |-> FALSE, all |-> FALSE, timeout |-> <<>>]

NoOp == [op |-> "none", id |-> NoId, arg |-> 0, ret |-> Void, opts |-> NoOpts, touched |-> {}]

----------------------------------------------------------------------------
(* State machine *)

\* a SequentialThinkingServer after construction
InitThinking ==
    /\ thoughtHistory = <<>>
    /\ branches = <<>>
    /\ response = NoResponse

\* no todo helper called, on the empty list
InitTodos ==
    /\ todos = <<>>
    /\ answer = NoAnswer

Init ==
    /\ tasks = EmptyMap
    /\ now = 0
    /\ issued = [k \in AllIds |-> 0]
    /\ hist = EmptyMap
    /\ last = NoOp
    /\ dlg = NoDelegation(DOMAIN AgentDefinitions)
    /\ mgr = TheManager
    /\ InitThinking
    /\ InitTodos

\* time passes between two operations
Tick ==
    /\ now < MaxTime
    /\ now' = now + 1
    /\ UNCHANGED <<tasks, issued, hist, last, dlg, mgr, thinkingVars, todoVars>>

StartBackgroundTask ==
    \E description \in Descriptions, agent \in Agents, prompt \in Prompts, sfx \in Suffixes :
        LET r == startBackgroundTask(tasks, description, agent, prompt, now, sfx)
        IN  /\ NumIssued < MaxStarts
            /\ tasks' = r.tasks
            /\ issued' = [issued EXCEPT ![r.ret] = @ + 1]
            /\ hist' = Record(hist, r.tasks, [k \in {r.ret} |-> r.writes])
            /\ last' = [op |-> "startBackgroundTask", id |-> r.ret, arg |-> 0,
                        ret |-> IdValue, opts |-> NoOpts, touched |-> {r.ret}]
            /\ UNCHANGED <<now, dlg, mgr, thinkingVars, todoVars>>

GetTaskResult ==
    \E taskId \in ProbeIds :
        /\ last' = [op |-> "getTaskResult", id |-> taskId, arg |-> 0,
                    ret |-> getTaskResult(tasks, taskId), opts |-> NoOpts, touched |-> {}]
        /\ UNCHANGED <<tasks, now, issued, hist, dlg, mgr, thinkingVars, todoVars>>

CancelTask ==
    \E taskId \in ProbeIds :
        LET r == cancelTask(tasks, taskId)
        IN  /\ tasks' = r.tasks
            /\ hist' = Record(hist, r.tasks, CancelWrites(tasks, r.tasks))
            /\ last' = [op |-> "cancelTask", id |-> taskId, arg |-> 0, ret |-> Bool(r.ret),
                        opts |-> NoOpts, touched |-> Touched(tasks, r.tasks, CancelWrites(tasks, r.tasks))]
            /\ UNCHANGED <<now, issued, dlg, mgr, thinkingVars, todoVars>>

CancelAll ==
    LET T2 == cancelAll(tasks)
    IN  /\ tasks' = T2
        /\ hist' = Record(hist, T2, CancelWrites(tasks, T2))
        /\ last' = [op |-> "cancelAll", id |-> NoId, arg |-> 0, ret |-> Void,
                    opts |-> NoOpts, touched |-> Touched(tasks, T2, CancelWrites(tasks, T2))]
        /\ UNCHANGED <<now, issued, dlg, mgr, thinkingVars, todoVars>>

Cleanup ==
    \E olderThanMs \in 0..MaxTime :
        LET T2 == cleanup(tasks, now, olderThanMs)
        IN  /\ tasks' = T2
            /\ hist' = Record(hist, T2, EmptyMap)
            /\ last' = [op |-> "cleanup", id |-> NoId, arg |-> olderThanMs, ret |-> Void,
                        opts |-> NoOpts, touched |-> Touched(tasks, T2, EmptyMap)]
            /\ UNCHANGED <<now, issued, dlg, mgr, thinkingVars, todoVars>>

\* the background_output tool: validation of the parameters, then execute
BackgroundOutput ==
    \E task_id \in ProbeIds \cup {EmptyTaskId}, block \in BOOLEAN, timeout \in Timeouts :
        LET invalid == validateOutputParams(task_id, block, timeout)
            r == backgroundOutputCall(tasks, task_id, block, timeout)
            opts == [NoOpts EXCEPT !.block = block, !.timeout = timeout]
        IN  IF invalid # None
            THEN /\ last' = [op |-> "background_output", id |-> task_id, arg |-> 0,
                             ret |-> [kind |-> "invalidParams", payload |-> invalid],
                             opts |-> opts, touched |-> {}]
                 /\ UNCHANGED <<tasks, now, issued, hist, dlg, mgr, thinkingVars, todoVars>>
            ELSE /\ mgr' = getInstance(mgr)
                 /\ tasks' = r.tasks
                 /\ hist' = Record(hist, r.tasks, CancelWrites(tasks, r.tasks))
                 /\ last' = [op |-> "background_output", id |-> task_id, arg |-> r.lookups,
                             ret |-> r.ret, opts |-> opts,
                             touched |-> Touched(tasks, r.tasks, CancelWrites(tasks, r.tasks))]
                 /\ UNCHANGED <<now, issued, dlg, thinkingVars, todoVars>>

\* the background_task tool: validation of the parameters, then execute
BackgroundTask ==
    \E description \in Descriptions \cup {Empty}, prompt \in Prompts \cup {Empty},
       agent \in Agents \cup {Empty}, sfx \in Suffixes :
        LET invalid == validateTaskParams(description, prompt, agent)
            r == startBackgroundTask(tasks, description, agent, prompt, now, sfx)
        IN  IF invalid # None
            THEN /\ last' = [op |-> "background_task", id |-> NoId, arg |-> 0,
                             ret |-> [kind |-> "invalidParams", payload |-> invalid],
                             opts |-> NoOpts, touched |-> {}]
                 /\ UNCHANGED <<tasks, now, issued, hist, dlg, mgr, thinkingVars, todoVars>>
            ELSE /\ NumIssued < MaxStarts
                 /\ mgr' = getInstance(mgr)
                 /\ tasks' = r.tasks
                 /\ issued' = [issued EXCEPT ![r.ret] = @ + 1]
                 /\ hist' = Record(hist, r.tasks, [k \in {r.ret} |-> r.writes])
                 /\ last' = [op |-> "background_task", id |-> r.ret, arg |-> 0,
                             ret |-> IdValue, opts |-> NoOpts, touched |-> {r.ret}]
                 /\ UNCHANGED <<now, dlg, thinkingVars, todoVars>>

\* the background_cancel tool: validation of the parameters, then execute
BackgroundCancel ==
    \E taskId \in ProbeIds \cup {NoId}, all \in BOOLEAN :
        LET r == backgroundCancel(tasks, taskId, all)
            opts == [NoOpts EXCEPT !.all = all]
        IN  IF buildCancel(taskId, all).error # None
            THEN /\ last' = [op |-> "background_cancel", id |-> taskId, arg |-> 0,
                             ret |-> [kind |-> "invalidParams",
                                      payload |-> buildCancel(taskId, all).error],
                             opts |-> opts, touched |-> {}]
                 /\ UNCHANGED <<tasks, now, issued, hist, dlg, mgr, thinkingVars, todoVars>>
            ELSE /\ mgr' = getInstance(mgr)
                 /\ tasks' = r.tasks
                 /\ hist' = Record(hist, r.tasks, CancelWrites(tasks, r.tasks))
                 /\ last' = [op |-> "background_cancel", id |-> taskId, arg |-> 0,
                             ret |-> [kind |-> "answer", payload |-> r.ret], opts |-> opts,
                             touched |-> Touched(tasks, r.tasks, CancelWrites(tasks, r.tasks))]
                 /\ UNCHANGED <<now, issued, dlg, thinkingVars, todoVars>>

\* delegate_task, first step: the parameters are validated and the invocation
\* is created
BuildDelegateTask ==
    \E params \in DelegateTaskArgs :
        /\ dlg' = build(dlg, params)
        /\ UNCHANGED <<tasks, now, issued, hist, last, mgr, thinkingVars, todoVars>>

\* delegate_task, second step: the invocation's execute runs with the caller's
\* signal; executor is what the sub-agent invocation does if it is invoked
ExecuteDelegateTask ==
    \E aborted \in BOOLEAN, executor \in Executors :
        /\ dlg.op = "built"
        /\ dlg' = [dlg EXCEPT !.op = "executed", !.aborted = aborted,
                              !.executor = executor,
                              !.outcome = execute(dlg.params, dlg.registry, aborted, executor)]
        /\ UNCHANGED <<tasks, now, issued, hist, last, mgr, thinkingVars, todoVars>>

Next ==
    \/ Tick
    \/ StartBackgroundTask
    \/ GetTaskResult
    \/ CancelTask
    \/ CancelAll
    \/ Cleanup

Spec == Init /\ [][Next]_vars

----------------------------------------------------------------------------
(* The methods over any registry of the declared type.                      *)
(* The map's value type admits every status and an optional result and      *)
(* error on any of them; this specification starts the same state machine   *)
(* from any such registry of entries registered at time 0, the empty one   *)
(* included, so that cancelTask, cancelAll and cleanup    *)
(* are exercised on pending, running, error and cancelled entries too.      *)

TaskFields ==
    [description : Descriptions, agent : {"explore"}, status : Statuses,
     result : {None, "r"}, error : {None, "e"}]

InitAnyRegistry ==
    /\ now = 0
    /\ \E S \in SUBSET {MakeTaskId(0, sfx) : sfx \in Suffixes} :
          \E f \in [S -> TaskFields] :
                tasks = [k \in S |->
                            [id |-> k, description |-> f[k].description,
                             agent |-> f[k].agent, status |-> f[k].status,
                             result |-> f[k].result, error |-> f[k].error]]
    /\ issued = [k \in AllIds |-> IF k \in DOMAIN tasks THEN 1 ELSE 0]
    /\ hist = [k \in DOMAIN tasks |-> <<tasks[k].status>>]
    /\ last = NoOp
    /\ dlg = NoDelegation(DOMAIN AgentDefinitions)
    /\ mgr = TheManager
    /\ InitThinking
    /\ InitTodos

SpecAnyRegistry == InitAnyRegistry /\ [][Next]_vars

\* Retrieval through the background_output tool, over the same registries
NextOutput ==
    \/ Tick
    \/ GetTaskResult
    \/ Cleanup
    \/ BackgroundOutput

SpecOutput == InitAnyRegistry /\ [][NextOutput]_vars

\* Delegation beside a registry that background tasks fill; the tool is
\* constructed with one of the agent directories
InitDelegate ==
    /\ tasks = EmptyMap
    /\ now = 0
    /\ issued = [k \in AllIds |-> 0]
    /\ hist = EmptyMap
    /\ last = NoOp
    /\ \E registry \in Registries : dlg = NoDelegation(registry)
    /\ mgr = TheManager
    /\ InitThinking
    /\ InitTodos

NextDelegate ==
    \/ StartBackgroundTask
    \/ BuildDelegateTask
    \/ ExecuteDelegateTask

SpecDelegate == InitDelegate /\ [][NextDelegate]_vars

\* The three background tools from the start of the process, before the
\* first getInstance call
InitTools ==
    /\ tasks = EmptyMap
    /\ now = 0
    /\ issued = [k \in AllIds |-> 0]
    /\ hist = EmptyMap
    /\ last = NoOp
    /\ dlg = NoDelegation(DOMAIN AgentDefinitions)
    /\ mgr = NoManager
    /\ InitThinking
    /\ InitTodos

NextTools ==
    \/ Tick
    \/ BackgroundTask
    \/ BackgroundOutput
    \/ BackgroundCancel

SpecTools == InitTools /\ [][NextTools]_vars

\* background_cancel over any registry of the declared type
NextCancel ==
    \/ BackgroundTask
    \/ BackgroundCancel

SpecCancel == InitAnyRegistry /\ [][NextCancel]_vars

----------------------------------------------------------------------------
(* The registry methods write by write.  Every method but                   *)
(* startBackgroundTask writes the map once or only reads it;                *)
(* startBackgroundTask writes twice.  JavaScript runs a call to its next    *)
(* await before any other caller's code runs, so another caller's           *)
(* operation can start between the two writes only if the method yields     *)
(* there.                                                                   *)

\* Mutant of StartYields: an await stands between the two writes.
StartYields_AwaitBetweenWrites == TRUE

\* whether startBackgroundTask yields between its two tasks.set calls: its
\* body holds no await
StartYields == FALSE

\* a startBackgroundTask call has made its first write and not its second
InCall == last.op = "startBackgroundTask.set"

\* another caller's operation can run
CanRun == ~InCall \/ StartYields

StartFirstWrite ==
    \E description \in Descriptions, agent \in Agents, sfx \in Suffixes :
        LET taskId == MakeTaskId(now, sfx)
            T1 == MapSet(tasks, taskId, NewTask(taskId, description, agent, "pending"))
        IN  /\ ~InCall
            /\ NumIssued < MaxStarts
            /\ tasks' = T1
            /\ issued' = [issued EXCEPT ![taskId] = @ + 1]
            /\ hist' = Record(hist, T1, [k \in {taskId} |-> <<"pending">>])
            /\ last' = [op |-> "startBackgroundTask.set", id |-> taskId, arg |-> 0,
                        ret |-> Void, opts |-> NoOpts, touched |-> {taskId}]
            /\ UNCHANGED <<now, dlg, mgr, thinkingVars, todoVars>>

StartSecondWrite ==
    LET taskId == last.id
        T2 == MapSet(tasks, taskId,
                     NewTask(taskId, tasks[taskId].description, tasks[taskId].agent,
                             "completed"))
    IN  /\ InCall
        /\ tasks' = T2
        /\ hist' = Record(hist, T2, [k \in {taskId} |-> <<"completed">>])
        /\ last' = [op |-> "startBackgroundTask", id |-> taskId, arg |-> 0,
                    ret |-> IdValue, opts |-> NoOpts, touched |-> {taskId}]
        /\ UNCHANGED <<now, issued, dlg, mgr, thinkingVars, todoVars>>

NextSteps ==
    \/ StartFirstWrite
    \/ StartSecondWrite
    \/ CanRun /\ GetTaskResult
    \/ CanRun /\ CancelTask
    \/ CanRun /\ CancelAll
    \/ CanRun /\ Cleanup

SpecSteps == Init /\ [][NextSteps]_vars

\* The manager's methods and the three background tools side by side, from a
\* manager that holds no task
NextProgram ==
    \/ Tick
    \/ StartBackgroundTask
    \/ GetTaskResult
    \/ CancelTask
    \/ CancelAll
    \/ Cleanup
    \/ BackgroundTask
    \/ BackgroundOutput
    \/ BackgroundCancel

SpecProgram == Init /\ [][NextProgram]_vars

----------------------------------------------------------------------------
(* Sequential thinking: processThought and reset on one server; time does   *)
(* not pass.                                                                *)

Server == [thoughtHistory |-> thoughtHistory, branches |-> branches, response |-> response]

ProcessThought ==
    \E input \in SequentialThinkingParams :
        LET r == processThought(Server, input, now)
        IN  /\ Len(thoughtHistory) < MaxThoughts
            /\ thoughtHistory' = r.thoughtHistory
            /\ branches' = r.branches
            /\ response' = r.response
            /\ UNCHANGED <<registryVars, todoVars>>

Reset ==
    /\ thoughtHistory' = reset(Server).thoughtHistory
    /\ branches' = reset(Server).branches
    /\ response' = [reset(Server).response EXCEPT !.kind = "reset"]
    /\ UNCHANGED <<registryVars, todoVars>>

NextThinking ==
    \/ ProcessThought
    \/ Reset

SpecThinking == Init /\ [][NextThinking]_vars

----------------------------------------------------------------------------
(* Todo helpers: each helper applied to any todo list of the declared type  *)

InitTodoLists ==
    /\ tasks = EmptyMap
    /\ now = 0
    /\ issued = [k \in AllIds |-> 0]
    /\ hist = EmptyMap
    /\ last = NoOp
    /\ dlg = NoDelegation(DOMAIN AgentDefinitions)
    /\ mgr = TheManager
    /\ InitThinking
    /\ todos \in TodoLists
    /\ answer = NoAnswer

HasIncompleteTodos ==
    /\ answer' = [NoAnswer EXCEPT !.op = "hasIncompleteTodos",
                                  !.has = hasIncompleteTodos(todos)]
    /\ UNCHANGED <<registryVars, thinkingVars, todos>>

GetNextTodo ==
    /\ answer' = [NoAnswer EXCEPT !.op = "getNextTodo", !.next = getNextTodo(todos)]
    /\ UNCHANGED <<registryVars, thinkingVars, todos>>

CreateTodoContinuationReminder ==
    /\ answer' = [NoAnswer EXCEPT !.op = "createTodoContinuationReminder",
                                  !.reminder = createTodoContinuationReminder(todos)]
    /\ UNCHANGED <<registryVars, thinkingVars, todos>>

ValidateTodosComplete ==
    /\ answer' = [NoAnswer EXCEPT !.op = "validateTodosComplete",
                                  !.threw = validateTodosComplete(todos).threw,
                                  !.message = validateTodosComplete(todos).message]
    /\ UNCHANGED <<registryVars, thinkingVars, todos>>

NextTodos ==
    \/ HasIncompleteTodos
    \/ GetNextTodo
    \/ CreateTodoContinuationReminder
    \/ ValidateTodosComplete

SpecTodos == InitTodoLists /\ [][NextTodos]_vars

----------------------------------------------------------------------------
(* Claims *)

Live == {"pending", "running"}
Terminal == {"completed", "error", "cancelled"}

\* C1: every call of startBackgroundTask returns an id that no earlier call
\* returned; an id is never reused, not even after cleanup removed the task.
C1_IdsNeverReused ==
    \A k \in AllIds : issued[k] <= 1

\* pending, running, then one terminal status; a cancel may come before running
LifecyclePrefix(h) ==
    /\ Len(h) <= 3
    /\ Len(h) >= 1 => h[1] = "pending"
    /\ Len(h) >= 2 => (h[2] = "running" \/ (h[2] = "cancelled" /\ Len(h) = 2))
    /\ Len(h) = 3 => h[3] \in Terminal

\* C2: the statuses a task takes are a prefix of pending, running, then exactly
\* one of completed / error / cancelled: it passes through running before it
\* becomes completed or error, and never leaves a terminal status.
C2_StatusSequence ==
    \A k \in DOMAIN hist : LifecyclePrefix(hist[k])

\* C3: once a task is completed, error or cancelled, no later operation changes
\* its status, result or error; it can only be removed, and only by cleanup.
C3_TerminalImmutable ==
    [][\A k \in DOMAIN tasks :
            tasks[k].status \in Terminal =>
                IF k \in DOMAIN tasks'
                THEN /\ tasks'[k].status = tasks[k].status
                     /\ tasks'[k].result = tasks[k].result
                     /\ tasks'[k].error = tasks[k].error
                ELSE last'.op = "cleanup" /\ k \in last'.touched]_vars

\* a terminal task that a second startBackgroundTask of the same id and then a
\* cancelTask were applied to
C3_Witness ==
    /\ last.op = "cancelTask"
    /\ last.id \in DOMAIN tasks
    /\ issued[last.id] = 2
    /\ tasks[last.id].status \in Terminal

\* C4: once an issued id is terminal, getTaskResult(id) returns an outcome that
\* identifies the terminal state (result, error or cancelled), not the answer
\* it gives for a task that is still pending (null).
C4_TerminalIsReported ==
    (/\ last.op = "getTaskResult"
     /\ last.id \in DOMAIN tasks
     /\ tasks[last.id].status \in Terminal)
        => last.ret.kind # "null"

\* C5: a stored task has a result iff it is completed, an error iff it is
\* error, never both, and neither while pending or running.
C5_ResultIffCompleted ==
    \A k \in DOMAIN tasks :
        /\ (tasks[k].result # None) <=> (tasks[k].status = "completed")
        /\ (tasks[k].error # None) <=> (tasks[k].status = "error")
        /\ ~(tasks[k].result # None /\ tasks[k].error # None)
        /\ tasks[k].status \in Live => (tasks[k].result = None /\ tasks[k].error = None)

\* C6: when cancelTask(id) is the next registry operation after the task was
\* registered, the task ends cancelled and is never reported as completed.
C6_CancelBeforeRun ==
    [][(/\ last.op = "startBackgroundTask"
        /\ last'.op = "cancelTask"
        /\ last'.id = last.id)
            => /\ last.id \in DOMAIN tasks'
               /\ tasks'[last.id].status = "cancelled"
               /\ getTaskResult(tasks', last.id).kind # "result"]_vars

\* C7: when startBackgroundTask hands the id back, the task is pending or
\* running: it is not yet terminal and its result is not yet known.
C7_NotTerminalAtReturn ==
    last.op = "startBackgroundTask" =>
        /\ last.id \in DOMAIN tasks
        /\ tasks[last.id].status \in Live

\* C8: cancelTask(id) on a pending or running task sets it to cancelled and
\* returns true; it returns true iff it changed the task's status; it changes
\* no other task.
C8_CancelTaskLive ==
    [][CancelTask =>
        LET taskId == last'.id
            live == taskId \in DOMAIN tasks /\ tasks[taskId].status \in Live
            changed == /\ taskId \in DOMAIN tasks
                       /\ taskId \in DOMAIN tasks'
                       /\ tasks'[taskId].status # tasks[taskId].status
        IN  /\ live => (/\ taskId \in DOMAIN tasks'
                        /\ tasks'[taskId].status = "cancelled"
                        /\ last'.ret = Bool(TRUE))
            /\ (last'.ret = Bool(TRUE)) <=> changed
            /\ DOMAIN tasks' = DOMAIN tasks
            /\ \A k \in (DOMAIN tasks) \ {taskId} : tasks'[k] = tasks[k]]_vars

\* a running task was cancelled by cancelTask, which returned true, next to
\* another stored task
C8_Witness ==
    /\ last.op = "cancelTask"
    /\ last.ret = Bool(TRUE)
    /\ last.id \in DOMAIN tasks
    /\ hist[last.id] = <<"running", "cancelled">>
    /\ \E k \in (DOMAIN tasks) \ {last.id} : tasks[k].status = "pending"

\* C9: cancelTask(id) on a completed, error or cancelled task, or on an id that
\* is not stored, returns false and leaves the whole registry unchanged.
C9_CancelTaskTerminal ==
    [][CancelTask =>
        LET taskId == last'.id
        IN  (taskId \notin DOMAIN tasks \/ tasks[taskId].status \in Terminal)
                => (last'.ret = Bool(FALSE) /\ tasks' = tasks)]_vars

\* cancelTask returned false on a stored task in status error that holds an error
C9_Witness ==
    /\ last.op = "cancelTask"
    /\ last.ret = Bool(FALSE)
    /\ last.id \in DOMAIN tasks
    /\ tasks[last.id].status = "error"
    /\ tasks[last.id].error # None

\* C10: after cancelAll no task is pending or running; those that were are
\* cancelled; those that were terminal keep status, result and error; no id is
\* added or removed.
C10_CancelAll ==
    [][CancelAll =>
        /\ DOMAIN tasks' = DOMAIN tasks
        /\ \A k \in DOMAIN tasks :
            /\ tasks'[k].status \notin Live
            /\ tasks[k].status \in Live => tasks'[k].status = "cancelled"
            /\ tasks[k].status \in Terminal =>
                /\ tasks'[k].status = tasks[k].status
                /\ tasks'[k].result = tasks[k].result
                /\ tasks'[k].error = tasks[k].error]_vars

\* cancelAll cancelled a pending task and left a completed task with a result
C10_Witness ==
    /\ last.op = "cancelAll"
    /\ \E k \in last.touched : hist[k] = <<"pending", "cancelled">>
    /\ \E k \in (DOMAIN tasks) \ last.touched :
            tasks[k].status = "completed" /\ tasks[k].result # None

\* C11: getTaskResult(id) returns the not-found error for every id that is not
\* stored (never issued, or removed by cleanup) and for no stored id; the
\* background_output tool answers that case with an error result, which differs
\* from its 'still running' answer.
C11_NotFound ==
    /\ \A k \in ProbeIds :
        /\ (getTaskResult(tasks, k).kind = "notfound") <=> (k \notin DOMAIN tasks)
        /\ k \notin DOMAIN tasks =>
            /\ backgroundOutput(tasks, k) = [kind |-> "toolError", payload |-> "not found"]
            /\ backgroundOutput(tasks, k).kind # "stillRunning"
    /\ last.op = "getTaskResult" =>
        ((last.ret.kind = "notfound") <=> (last.id \notin DOMAIN tasks))
    /\ (last.op = "background_output" /\ last.ret.kind # "invalidParams") =>
        ((last.ret = [kind |-> "toolError", payload |-> "not found"])
            <=> (last.id \notin DOMAIN tasks))

\* background_output was asked for an id that was issued and then cleaned up
C11_Witness ==
    /\ last.op = "background_output"
    /\ last.id \in AllIds
    /\ issued[last.id] > 0
    /\ last.id \notin DOMAIN tasks
    /\ last.ret.kind = "toolError"

\* C12: cleanup(maxAge) never removes a pending or running task, whatever its
\* age and maxAge, and changes nothing about a task that stays.
C12_CleanupKeepsLive ==
    [][Cleanup =>
        \A k \in DOMAIN tasks :
            /\ tasks[k].status \in Live => k \in DOMAIN tasks'
            /\ k \in DOMAIN tasks' => tasks'[k] = tasks[k]]_vars

\* cleanup(0) removed a task and kept a running task that is older than the cutoff
C12_Witness ==
    /\ last.op = "cleanup"
    /\ last.arg = 0
    /\ last.touched # {}
    /\ \E k \in DOMAIN tasks : tasks[k].status = "running" /\ IdTimestamp(k) < now

Delegated == dlg.op \in {"rejected", "built", "executed"}
NamesCategory == Truthy(dlg.params.category)
NamesAgent == Truthy(dlg.params.subagent_type)
Executed == dlg.op = "executed"

\* C15: a request that sets both category and subagent_type is rejected by
\* validation, whatever the two names are; nothing is resolved, the executor
\* is not invoked, neither then nor later, and the registry is unchanged.
\* (A step that changes dlg is a step of the delegate_task tool.)
C15_BothRejected ==
    [][/\ dlg' # dlg =>
            ((Truthy(dlg'.params.category) /\ Truthy(dlg'.params.subagent_type)) =>
                /\ dlg'.op = "rejected"
                /\ dlg'.outcome.kind = "validationError"
                /\ dlg'.outcome.error = "Cannot specify both"
                /\ dlg'.outcome.agentName = None
                /\ dlg'.outcome.invoked = <<>>
                /\ tasks' = tasks
                /\ issued' = issued)
       /\ dlg.op = "rejected" => dlg'.op # "executed"]_vars

\* both names unknown, rejected beside a registry that holds a task
C15_Witness ==
    /\ dlg.op = "rejected"
    /\ dlg.params.category = "bogus"
    /\ dlg.params.subagent_type = "nonesuch"
    /\ dlg.outcome.error = "Cannot specify both"
    /\ DOMAIN tasks # {}

\* C16: a request naming a category that is no key of the category table, or an
\* agent the directory has no definition for, is rejected with a message that
\* lists the valid category names, resp. agent names; a request naming a known
\* category or a known agent, and not both, passes validation.
C16_UnknownNamesRejected ==
    Delegated =>
        /\ (NamesCategory /\ ~NamesAgent /\ dlg.params.category \notin CategoryKeys) =>
            /\ dlg.op = "rejected"
            /\ dlg.outcome.error = "Unknown category"
            /\ dlg.outcome.available = CategoryNames
        /\ (NamesAgent /\ ~NamesCategory /\ dlg.params.subagent_type \notin dlg.registry) =>
            /\ dlg.op = "rejected"
            /\ dlg.outcome.error = "Unknown agent"
            /\ dlg.outcome.available = AgentNames(dlg.registry)
        /\ (\/ NamesCategory /\ ~NamesAgent /\ dlg.params.category \in CategoryKeys
            \/ NamesAgent /\ ~NamesCategory /\ dlg.params.subagent_type \in dlg.registry) =>
            dlg.op # "rejected"

\* a valid request: not both names, the category a key of the table, the agent
\* defined in the directory
ValidRequest ==
    /\ Delegated
    /\ ~(NamesCategory /\ NamesAgent)
    /\ NamesCategory => dlg.params.category \in CategoryKeys
    /\ NamesAgent => dlg.params.subagent_type \in dlg.registry

\* C17: for a valid request the target is the named agent if subagent_type is
\* given, and 'sisyphus' if a category or neither is given; a temperature
\* override is produced exactly if a category is given.
C17_TargetResolution ==
    (ValidRequest /\ Executed) =>
        /\ dlg.outcome.agentName =
                (IF NamesAgent THEN dlg.params.subagent_type ELSE "sisyphus")
        /\ (dlg.outcome.temperature # <<>>) <=> NamesCategory

\* the category quick resolved to sisyphus with the temperature 0.1
C17_Witness ==
    /\ ValidRequest
    /\ Executed
    /\ dlg.params.category = "quick"
    /\ dlg.outcome.agentName = "sisyphus"
    /\ dlg.outcome.temperature = <<DEFAULT_CATEGORIES["quick"]>>

\* C18: a delegation naming the category c invokes the executor for sisyphus
\* with the temperature configured for c.
C18_CategoryTemperatureApplied ==
    (Executed /\ dlg.outcome.invoked # <<>> /\ ~NamesAgent
        /\ dlg.params.category \in CategoryKeys) =>
            /\ dlg.outcome.invoked[1].agent = "sisyphus"
            /\ dlg.outcome.invoked[1].temperature = DEFAULT_CATEGORIES[dlg.params.category]

\* C19 as stated: every synchronous delegation executed with an aborted signal
\* fails with the cancelled failure, and the executor is not invoked.
C19_AbortedAlwaysCancelled ==
    (Executed /\ ~dlg.params.run_in_background /\ dlg.aborted) =>
        /\ dlg.outcome.kind = "cancelled"
        /\ dlg.outcome.invoked = <<>>

\* C19, amended: a synchronous delegation executed with an aborted signal fails
\* and never invokes the executor; the failure is the cancelled one exactly if
\* the target has a definition and the arguments satisfy its input schema,
\* and the failure of the lookup or of the schema validation otherwise.
C19_AbortedNeverInvokes ==
    (Executed /\ ~dlg.params.run_in_background /\ dlg.aborted) =>
        /\ dlg.outcome.invoked = <<>>
        /\ dlg.outcome.kind \in {"agentNotFound", "invalidArguments", "cancelled"}
        /\ (dlg.outcome.kind = "cancelled") <=>
            /\ dlg.outcome.agentName \in dlg.registry
            /\ SchemaViolations(AgentDefinitions[dlg.outcome.agentName].required,
                                dlg.outcome.agentArgs) = {}

\* an aborted call for sisyphus failed as cancelled
C19_Witness ==
    /\ Executed
    /\ ~dlg.params.run_in_background
    /\ dlg.aborted
    /\ dlg.outcome.kind = "cancelled"
    /\ dlg.outcome.invoked = <<>>

\* C20: a synchronous delegation allocates no task id and leaves the registry
\* as it was, whether it returns or fails; when the executor is invoked, the
\* outcome is its failure, or a result with the content the executor returned.
\* (A step that changes dlg is a step of the delegate_task tool.)
C20_SynchronousNoTask ==
    [][(dlg' # dlg /\ ~dlg'.params.run_in_background) =>
        /\ tasks' = tasks
        /\ issued' = issued
        /\ hist' = hist
        /\ (dlg'.op = "executed" /\ dlg'.outcome.invoked # <<>>) =>
            IF dlg'.executor = "throw"
            THEN dlg'.outcome.kind = "executorFailure"
            ELSE /\ dlg'.outcome.kind = "result"
                 /\ dlg'.outcome.result.llmContent.parts
                        = ExecutorResult(dlg'.executor).llmContent.parts]_vars

\* a synchronous delegation returned the executor's text beside a stored task
C20_Witness ==
    /\ Executed
    /\ ~dlg.params.run_in_background
    /\ dlg.executor = "text"
    /\ dlg.outcome.kind = "result"
    /\ dlg.outcome.result.llmContent.parts = <<"x">>
    /\ DOMAIN tasks # {}

\* C21: when the packed arguments miss a field the target's input schema
\* requires, the delegation fails with the schema validation failure, the
\* executor is not invoked and no task is registered.
C21_SchemaFailure ==
    [][(/\ dlg' # dlg
        /\ dlg'.op = "executed"
        /\ dlg'.outcome.agentName \in dlg'.registry
        /\ \E f \in AgentDefinitions[dlg'.outcome.agentName].required :
                \A i \in DOMAIN dlg'.outcome.agentArgs : dlg'.outcome.agentArgs[i][1] # f) =>
            /\ dlg'.outcome.kind = "invalidArguments"
            /\ dlg'.outcome.invoked = <<>>
            /\ tasks' = tasks
            /\ issued' = issued]_vars

\* a delegation to oracle failed on the schema beside a stored task
C21_Witness ==
    /\ Executed
    /\ dlg.params.subagent_type = "oracle"
    /\ ~dlg.aborted
    /\ dlg.outcome.kind = "invalidArguments"
    /\ dlg.outcome.invoked = <<>>
    /\ DOMAIN tasks # {}

\* C22: the arguments handed to the target agent are the prompt under the key
\* task and, exactly if the request carries a resume handle, that handle
\* under the key resume_session; nothing else of the request is added.
C22_ArgumentsPacked ==
    (Executed /\ dlg.outcome.invoked # <<>>) =>
        dlg.outcome.invoked[1].agentArgs =
            IF Truthy(dlg.params.resume)
            THEN <<<<"task", dlg.params.prompt>>, <<"resume_session", dlg.params.resume>>>>
            ELSE <<<<"task", dlg.params.prompt>>>>

\* the executor was invoked with the prompt and the resume handle s1
C22_Witness ==
    /\ Executed
    /\ dlg.outcome.invoked # <<>>
    /\ dlg.params.resume = "s1"
    /\ dlg.outcome.invoked[1].agentArgs[1] = <<"task", "p">>
    /\ Len(dlg.outcome.invoked[1].agentArgs) = 2

\* the last call was a background_output call that passed validation
Retrieved == last.op = "background_output" /\ last.ret.kind # "invalidParams"
Blocking == Retrieved /\ last.opts.block /\ last.opts.timeout # <<>>

C24_BlockingReturnsResult ==
    (Blocking /\ last.id \in DOMAIN tasks /\ tasks[last.id].status = "completed") =>
        last.ret.kind = "toolResult"

\* C25: a retrieval, blocking or not, leaves the set of ids and every task's
\* status, result and error as they were; a non-blocking one performs
\* exactly one getTaskResult lookup.
\* (A step that sets last to a background_output record is a step of that tool.)
C25_RetrievalReadsOnly ==
    [][(last' # last /\ last'.op = "background_output") =>
        /\ tasks' = tasks
        /\ issued' = issued
        /\ (last'.ret.kind # "invalidParams" /\ ~last'.opts.block) => last'.arg = 1]_vars

\* a blocking retrieval of a running task answered 'still running'
C25_Witness ==
    /\ Blocking
    /\ last.id \in DOMAIN tasks
    /\ tasks[last.id].status = "running"
    /\ last.ret.kind = "stillRunning"
    /\ last.arg = 1

\* C26: background_cancel accepts a request exactly if one of taskId and all
\* is given and the other is not; a rejected request leaves the registry
\* unchanged.
C26_CancelValidation ==
    [][(last' # last /\ last'.op = "background_cancel") =>
        /\ (last'.ret.kind = "invalidParams")
                <=> ((last'.id # NoId) <=> last'.opts.all)
        /\ last'.ret.kind = "invalidParams" => tasks' = tasks]_vars

\* a request with the id of a running task and all = true was rejected
C26_Witness ==
    /\ last.op = "background_cancel"
    /\ last.opts.all
    /\ last.id \in DOMAIN tasks
    /\ tasks[last.id].status = "running"
    /\ last.ret.kind = "invalidParams"

\* C27: for a single-task request background_cancel answers 'cancelled'
\* exactly when the task was pending or running, and the task is cancelled
\* then; it answers 'not found or already completed' exactly when the id is
\* not stored or the task was terminal, and nothing changes then.
C27_CancelAnswer ==
    [][(last' # last /\ last'.op = "background_cancel" /\ last'.ret.kind = "answer"
            /\ ~last'.opts.all) =>
        /\ (last'.ret.payload = "cancelled")
                <=> (last'.id \in DOMAIN tasks /\ tasks[last'.id].status \in Live)
        /\ last'.ret.payload = "cancelled" => tasks'[last'.id].status = "cancelled"
        /\ (last'.ret.payload = "not found or already completed")
                <=> (last'.id \notin DOMAIN tasks \/ tasks[last'.id].status \in Terminal)
        /\ last'.ret.payload # "cancelled" => tasks' = tasks]_vars

\* background_cancel answered 'cancelled' for a task it cancelled
C27_Witness ==
    /\ last.op = "background_cancel"
    /\ ~last.opts.all
    /\ last.ret = [kind |-> "answer", payload |-> "cancelled"]
    /\ last.id \in DOMAIN tasks
    /\ tasks[last.id].status = "cancelled"
    /\ last.touched = {last.id}

\* C28: two background registrations yield two distinct ids and two separate
\* entries, and an operation on one task leaves every other entry as it was.
\* (A step that changes issued is a registration.)
C28_SeparateEntries ==
    [][/\ issued' # issued =>
            /\ Cardinality(DOMAIN tasks') = Cardinality(DOMAIN tasks) + 1
            /\ \A k \in DOMAIN tasks : tasks'[k] = tasks[k]
       /\ (last' # last /\ last'.op \in {"cancelTask", "getTaskResult"}) =>
            \A k \in (DOMAIN tasks) \ {last'.id} : tasks'[k] = tasks[k]]_vars

\* C29: registry mutations are atomic: from the first write of a
\* startBackgroundTask call the next step is the second write of the same
\* call, and whenever another operation can run no stored record is in the
\* intermediate status pending.
C29_Atomic ==
    [][/\ InCall => (last'.op = "startBackgroundTask" /\ last'.id = last.id)
       /\ ~InCall => \A k \in DOMAIN tasks : tasks[k].status # "pending"]_vars

\* a call stands between its two writes while another task is stored
C29_Witness ==
    /\ InCall
    /\ tasks[last.id].status = "pending"
    /\ \E k \in DOMAIN tasks : k # last.id

\* C30: there is one manager per process: getInstance constructs at most one
\* and every tool call works on it, so that background_output finds, under the
\* same id, the task background_task started.
C30_OneManager ==
    /\ mgr.created <= 1
    /\ mgr.instance = mgr.created
    /\ (last.op \in {"background_task", "background_output", "background_cancel"}
            /\ last.ret.kind # "invalidParams") => mgr = TheManager
    /\ (last.op = "background_task" /\ last.ret = IdValue) =>
            /\ last.id \in DOMAIN tasks
            /\ backgroundOutput(tasks, last.id).kind # "toolError"
    /\ (Retrieved /\ last.id \in AllIds /\ issued[last.id] > 0) =>
            last.ret.kind # "toolError"

\* background_output found a task that background_task had started
C30_Witness ==
    /\ Retrieved
    /\ last.id \in AllIds
    /\ issued[last.id] > 0
    /\ last.ret.kind = "stillRunning"
    /\ mgr = TheManager

C32_NothingToCancel ==
    [][/\ CanRun => \A k \in DOMAIN tasks : tasks[k].status \notin Live
       /\ (last' # last /\ last'.op = "cancelTask") =>
            (last'.ret = Bool(FALSE) /\ tasks' = tasks)
       /\ (last' # last /\ last'.op = "cancelAll") => tasks' = tasks]_vars

\* cancelTask was called with the id of a stored task and returned false
C32_Witness ==
    /\ last.op = "cancelTask"
    /\ last.id \in DOMAIN tasks
    /\ last.ret = Bool(FALSE)
    /\ tasks[last.id].status = "completed"

\* C33: no stored task ever has a result or an error or the status running or
\* error; getTaskResult returns null for every stored id and the not-found
\* error for an unknown one, and background_output answers 'still running'
\* for every stored task, whatever the time since it was completed.
C33_NeverAnOutcome ==
    /\ \A k \in DOMAIN tasks :
          /\ tasks[k].result = None
          /\ tasks[k].error = None
          /\ tasks[k].status \notin {"running", "error"}
          /\ getTaskResult(tasks, k).kind = "null"
          /\ backgroundOutput(tasks, k).kind = "stillRunning"
    /\ getTaskResult(tasks, NeverIssuedId).kind = "notfound"
    /\ last.op = "getTaskResult" => last.ret.kind \in {"notfound", "null"}
    /\ (Retrieved /\ last.id \in DOMAIN tasks) => last.ret.kind = "stillRunning"

\* background_output answered 'still running' for a task completed earlier
C33_Witness ==
    /\ Retrieved
    /\ last.id \in DOMAIN tasks
    /\ tasks[last.id].status = "completed"
    /\ IdTimestamp(last.id) < now
    /\ last.ret.kind = "stillRunning"

\* C34: the prompt is packed under the key task.  A direct delegation to an
\* agent whose schema requires another field (explore, oracle, librarian)
\* fails on the schema and never invokes the executor; the executor is invoked
\* only for targets whose schema requires task (sisyphus, frontend).
C34_PromptUnderTask ==
    Executed =>
        /\ dlg.outcome.agentArgs # <<>> =>
                dlg.outcome.agentArgs[1] = <<"task", dlg.params.prompt>>
        /\ (NamesAgent /\ dlg.params.subagent_type \in {"explore", "oracle", "librarian"}) =>
                /\ dlg.outcome.kind = "invalidArguments"
                /\ dlg.outcome.invoked = <<>>
        /\ dlg.outcome.invoked # <<>> =>
                /\ dlg.outcome.agentName \in {"sisyphus", "frontend"}
                /\ AgentDefinitions[dlg.outcome.agentName].required = {"task"}

\* a delegation to librarian failed on the schema, the signal not aborted
C34_Witness ==
    /\ Executed
    /\ dlg.params.subagent_type = "librarian"
    /\ ~dlg.aborted
    /\ dlg.outcome.kind = "invalidArguments"
    /\ dlg.outcome.agentArgs[1] = <<"task", "p">>
    /\ dlg.outcome.invoked = <<>>

\* the target's definition is found and the packed arguments satisfy its schema
DefinitionFound == dlg.outcome.agentName \in dlg.registry
ArgumentsValid ==
    SchemaViolations(AgentDefinitions[dlg.outcome.agentName].required, AgentArgs(dlg.params)) = {}

\* C35: the steps of a delegation run in the order target, definition lookup,
\* schema validation, signal, executor: the failure reported is that of the
\* first step that fails (the schema failure when the signal is aborted and
\* the arguments are invalid), and the executor is invoked, once, only when
\* every earlier step succeeded.
C35_StepOrder ==
    Executed =>
        /\ dlg.outcome.agentName = resolveTarget(dlg.params).agentName
        /\ dlg.outcome.kind =
                IF ~DefinitionFound THEN "agentNotFound"
                ELSE IF ~ArgumentsValid THEN "invalidArguments"
                ELSE IF dlg.aborted THEN "cancelled"
                ELSE IF dlg.executor = "throw" THEN "executorFailure"
                ELSE "result"
        /\ Len(dlg.outcome.invoked) <= 1
        /\ dlg.outcome.invoked # <<>> <=>
                (DefinitionFound /\ ArgumentsValid /\ ~dlg.aborted)

\* the signal was aborted and the arguments invalid: the schema failure
C35_Witness ==
    /\ Executed
    /\ dlg.aborted
    /\ DefinitionFound
    /\ ~ArgumentsValid
    /\ dlg.outcome.kind = "invalidArguments"

\* the request with run_in_background negated
Flipped(params) == [params EXCEPT !.run_in_background = ~@]

\* C36: delegate_task does the same for run_in_background true and false:
\* validation and execution give the outcome they give for the request with
\* the flag negated, a background request that reaches the executor returns
\* the executor's result, and the registry is unchanged.
\* (A step that changes dlg is a step of the delegate_task tool.)
C36_BackgroundFlagIgnored ==
    [][dlg' # dlg =>
        /\ tasks' = tasks
        /\ issued' = issued
        /\ hist' = hist
        /\ dlg'.op \in {"rejected", "built"} =>
                validateToolParamValues(Flipped(dlg'.params), dlg'.registry)
                    = validateToolParamValues(dlg'.params, dlg'.registry)
        /\ dlg'.op = "executed" =>
                /\ dlg'.outcome = execute(Flipped(dlg'.params), dlg'.registry,
                                          dlg'.aborted, dlg'.executor)
                /\ (dlg'.outcome.invoked # <<>> /\ dlg'.executor # "throw") =>
                        /\ dlg'.outcome.kind = "result"
                        /\ dlg'.outcome.result.llmContent.parts
                                = ExecutorResult(dlg'.executor).llmContent.parts]_vars

\* a background request was executed inline and returned the executor's text
C36_Witness ==
    /\ Executed
    /\ dlg.params.run_in_background
    /\ dlg.executor = "text"
    /\ dlg.outcome.kind = "result"
    /\ dlg.outcome.invoked # <<>>
    /\ dlg.outcome.result.llmContent.parts = <<"x">>
    /\ DOMAIN tasks = {}

\* C37: startBackgroundTask resolves and validates nothing: a call of the
\* background_task tool with any non-empty agent name, also one the agent
\* directory has no definition of, returns an id and stores a task under it;
\* the delegate_task tool and its executor are not involved.
\* (A step that changes issued is a registration.)
C37_NoValidation ==
    [][(last' # last /\ last'.op = "background_task") =>
        /\ last'.ret.kind \in {"id", "invalidParams"}
        /\ last'.ret = IdValue =>
              /\ issued' # issued
              /\ issued'[last'.id] = issued[last'.id] + 1
              /\ last'.id \in DOMAIN tasks'
              /\ dlg' = dlg
        /\ last'.ret.kind = "invalidParams" => issued' = issued]_vars

\* background_task registered a task for an agent that has no definition
C37_Witness ==
    /\ last.op = "background_task"
    /\ last.ret = IdValue
    /\ last.id \in DOMAIN tasks
    /\ tasks[last.id].agent = "ghost"
    /\ tasks[last.id].agent \notin DOMAIN AgentDefinitions

\* the orders in which the ids of S can be visited
RECURSIVE Orders(_)
Orders(S) ==
    IF S = {} THEN {<<>>}
    ELSE UNION {{<<k>> \o o : o \in Orders(S \ {k})} : k \in S}

\* cancelTask(id) for every id of the sequence, in turn
RECURSIVE CancelEach(_, _)
CancelEach(T, order) ==
    IF order = <<>> THEN T
    ELSE CancelEach(cancelTask(T, Head(order)).tasks, Tail(order))

\* C38: cancelAll is idempotent, and the registry it leaves is the one left by
\* cancelTask(id) called for every stored id, in any order.
C38_CancelAllLaws ==
    /\ cancelAll(cancelAll(tasks)) = cancelAll(tasks)
    /\ \A order \in Orders(DOMAIN tasks) : CancelEach(tasks, order) = cancelAll(tasks)
    /\ last.op = "cancelAll" => cancelAll(tasks) = tasks

\* cancelAll cancelled two tasks, which can be cancelled one by one in two orders
C38_Witness ==
    /\ last.op = "cancelAll"
    /\ Cardinality(last.touched) >= 2
    /\ Cardinality(Orders(DOMAIN tasks)) >= 2
    /\ \A k \in last.touched : tasks[k].status = "cancelled"

\* C39: the thinking history is append-only: a processThought call makes it
\* one longer and leaves the earlier entries as they were; the totalThoughts
\* it returns is at least the thoughtNumber it returns; the branch ids never
\* shrink under it and gain an id only when branchFromThought and branchId
\* are both given; only reset empties the history and the branches.
\* (A step that lengthens the history is a processThought call.)
C39_AppendOnly ==
    [][/\ thoughtHistory' # thoughtHistory =>
            \/ /\ Len(thoughtHistory') = Len(thoughtHistory) + 1
               /\ SubSeq(thoughtHistory', 1, Len(thoughtHistory)) = thoughtHistory
               /\ \A i \in DOMAIN branches : BranchKeys(branches')[i] = BranchKeys(branches)[i]
               /\ Len(branches') \in {Len(branches), Len(branches) + 1}
               /\ Len(branches') > Len(branches) =>
                    LET t == thoughtHistory'[Len(thoughtHistory')]
                    IN  /\ t.branchFromThought # <<>>
                        /\ t.branchId # None
                        /\ branches'[Len(branches')].id = t.branchId
               /\ response'.kind = "response" =>
                    /\ response'.totalThoughts >= response'.thoughtNumber
                    /\ response'.thoughtHistoryLength = Len(thoughtHistory')
                    /\ response'.thoughtHistoryLength = Len(thoughtHistory) + 1
                    /\ response'.branches = BranchKeys(branches')
            \/ /\ response'.kind = "reset"
               /\ thoughtHistory' = <<>>
               /\ branches' = <<>>
       /\ (branches' # branches /\ response'.kind # "reset") =>
            Len(thoughtHistory') = Len(thoughtHistory) + 1
       /\ response' # response => thoughtHistory' # thoughtHistory \/ response'.kind = "reset"]_vars

\* a second thought, numbered 2, opened the branch b1
C39_Witness ==
    /\ Len(thoughtHistory) = 2
    /\ response.kind = "response"
    /\ response.thoughtNumber = 2
    /\ response.totalThoughts = 2
    /\ thoughtHistory[2].totalThoughts = 2
    /\ response.branches = <<"b1">>
    /\ thoughtHistory[1].branchId = None
    /\ response.thoughtHistoryLength = 2

\* C40: the todo helpers agree on every todo list: hasIncompleteTodos is true
\* exactly when getNextTodo is not null, exactly when the reminder is not
\* empty and exactly when validateTodosComplete throws; getNextTodo returns the
\* first in_progress todo, if there is none the first pending one, else null.
C40_HelpersAgree ==
    LET next == getNextTodo(todos)
    IN  /\ hasIncompleteTodos(todos) <=> next # <<>>
        /\ hasIncompleteTodos(todos) <=> createTodoContinuationReminder(todos) # <<>>
        /\ hasIncompleteTodos(todos) <=> validateTodosComplete(todos).threw
        /\ answer.op = "hasIncompleteTodos" => (answer.has <=> next # <<>>)
        /\ answer.op = "getNextTodo" => (answer.next # <<>> <=> hasIncompleteTodos(todos))
        /\ answer.op = "createTodoContinuationReminder" =>
                (answer.reminder # <<>> <=> hasIncompleteTodos(todos))
        /\ answer.op = "validateTodosComplete" => (answer.threw <=> hasIncompleteTodos(todos))
        /\ IF \E i \in DOMAIN todos : todos[i].status = "in_progress"
           THEN \E i \in DOMAIN todos :
                    /\ next = <<todos[i]>>
                    /\ todos[i].status = "in_progress"
                    /\ \A j \in 1..(i - 1) : todos[j].status # "in_progress"
           ELSE IF \E i \in DOMAIN todos : todos[i].status = "pending"
           THEN \E i \in DOMAIN todos :
                    /\ next = <<todos[i]>>
                    /\ todos[i].status = "pending"
                    /\ \A j \in 1..(i - 1) : todos[j].status # "pending"
           ELSE next = <<>>

\* getNextTodo returned the in_progress todo that stands behind a pending one
C40_Witness ==
    /\ answer.op = "getNextTodo"
    /\ Len(todos) >= 3
    /\ todos[1].status = "completed"
    /\ todos[2] = [content |-> "x", status |-> "pending"]
    /\ todos[3] = [content |-> "y", status |-> "in_progress"]
    /\ answer.next = <<todos[3]>>

====
